---- MODULE Spec2Model ----
(***************************************************************************)
(* A model of the AI-for-Trading notebooks: the PyTorch save/load          *)
(* notebook, the PyTorch training notebook and the zipline pipeline        *)
(* notebook.  Every notebook runs in a kernel of its own; the variable nb  *)
(* says which program the kernel of a behaviour runs.                      *)
(***************************************************************************)
EXTENDS Integers, Sequences, FiniteSets, TLC

VARIABLES
    nb,          \* the program this kernel runs
    pc,          \* the next statement of that program
    exc,         \* the exception the last statement raised (NoExc: none)
    trace,       \* the statements executed so far in the current cell / iteration
    model,       \* save/load: the global `model` (None while unbound)
    state_dict,  \* save/load: the global `state_dict`
    checkpoint,  \* save/load: the global `checkpoint`
    file,        \* save/load: the contents of 'checkpoint.pth' (None: no file)
    savedModel,  \* history: the network whose parameters the file holds
    trainedModel, \* history: the network as fc_model.train left it
    zenv,        \* zipline: what the setup cells have done
    terms,       \* zipline: the factors and filters bound to names
    pipeline,    \* zipline: the global `pipeline`
    data,        \* zipline: the bundle's data the engine has read
    output,      \* zipline: the global `output`
    reruns,      \* zipline: how often the add cell was executed again
    tmodel,      \* training: the global `model`, its parameters and their .grad
    optimizer,   \* training: the global `optimizer`
    tbatch,      \* training: the globals `images, labels`
    toutput,     \* training: the global `logits` / `output`
    loss,        \* training: the global `loss`
    remaining,   \* training: batches the trainloader iterator has yet to give
    e,           \* training: the loop variable `e`
    running_loss, \* training: the global `running_loss`
    stdout,      \* training: lines printed by the training cell
    iter_ops,    \* history: torch operations of the current training pass
    sample_text, \* regex: the global `sample_text`
    regex,       \* regex: the global `regex`
    matches,     \* regex: the matches the cell's loop printed
    tx,          \* training: the global `x`, its values and its .grad
    ty,          \* training: the global `y`
    tz,          \* training: the global `z`
    disk         \* the paths the kernel's statements have written files to

slVars == <<model, state_dict, checkpoint, file, savedModel, trainedModel>>
zVars == <<zenv, terms, pipeline, data, output, reruns>>
tVars == <<tmodel, optimizer, tbatch, toutput, loss, remaining, e, running_loss,
           stdout, iter_ops>>
rVars == <<sample_text, regex, matches>>
aVars == <<tx, ty, tz>>
vars == <<nb, pc, exc, trace, disk, slVars, zVars, tVars, rVars, aVars>>

----------------------------------------------------------------------------
(* Bounds of the model *)

\* parameter values are drawn from 0 .. NVals-1
NVals == 3
\* the longest list of hidden sizes the checkpoint functions are applied to
MaxHidden == 2
\* trading days from start_date to end_date, and assets of the bundle
NDays == 1
NAssets == 2
\* how often the cell adding two columns is executed again
MaxReruns == 1
\* assets of the day the factors and filters are evaluated on
NTermAssets == 21
\* batches the trainloader gives per epoch
NBatches == 2
\* pieces a text given to a regular expression is put together from
MaxPieces == 3
\* the elements of the tensor x are drawn from -XMax..XMax
XMax == 2
\* parameter values are kept modulo WMod
WMod == 7

----------------------------------------------------------------------------
(* Python values *)

None == <<>>
Some(x) == <<x>>
The(o) == o[1]

NoExc == [type |-> "", msg |-> "", errors |-> <<>>]
Exc(t, m) == [type |-> t, msg |-> m, errors |-> <<>>]
ExcErrors(t, m, errs) == [type |-> t, msg |-> m, errors |-> errs]

Digits == <<"0", "1", "2", "3", "4", "5", "6", "7", "8", "9">>

----------------------------------------------------------------------------
(* torch and fc_model, as the save/load notebook uses them *)

Tensor(shape, val) == [shape |-> shape, val |-> val % NVals]

\* nn.Linear(in_features, out_features): weight is out x in, bias is out
Linear(in_f, out_f, v) ==
    [in_features |-> in_f, out_features |-> out_f,
     weight |-> Tensor(<<out_f, in_f>>, v),
     bias |-> Tensor(<<out_f>>, v + 1)]

\* fc_model.Network(input_size, output_size, hidden_layers); seed stands for
\* the random initialisation
Network(input_size, output_size, hidden, seed) ==
    [hidden_layers |->
        [k \in 1..Len(hidden) |->
            Linear(IF k = 1 THEN input_size ELSE hidden[k - 1], hidden[k],
                   seed + 2 * (k - 1))],
     output |-> Linear(hidden[Len(hidden)], output_size, seed + 2 * Len(hidden))]

\* [each.out_features for each in model.hidden_layers]
HiddenSizes(m) == [k \in 1..Len(m.hidden_layers) |-> m.hidden_layers[k].out_features]

\* model.state_dict(): the named parameters, in module order
StateDict(m) ==
    LET L == Len(m.hidden_layers) IN
    [j \in 1..(2 * L + 2) |->
        LET k == (j + 1) \div 2 IN
        IF k <= L
        THEN IF j % 2 = 1
             THEN [key |-> "hidden_layers." \o Digits[k] \o ".weight",
                   t |-> m.hidden_layers[k].weight]
             ELSE [key |-> "hidden_layers." \o Digits[k] \o ".bias",
                   t |-> m.hidden_layers[k].bias]
        ELSE IF j % 2 = 1
             THEN [key |-> "output.weight", t |-> m.output.weight]
             ELSE [key |-> "output.bias", t |-> m.output.bias]]

Keys(d) == [j \in 1..Len(d) |-> d[j].key]
HasKey(d, k) == \E j \in 1..Len(d) : d[j].key = k
Lookup(d, k) == d[CHOOSE j \in 1..Len(d) : d[j].key = k]

\* fc_model.train(model, ...): every parameter moves
TrainStep(m, delta) ==
    LET upd(l) == [l EXCEPT !.weight.val = (@ + delta) % NVals,
                            !.bias.val = (@ + delta) % NVals]
    IN [hidden_layers |-> [k \in 1..Len(m.hidden_layers) |-> upd(m.hidden_layers[k])],
        output |-> upd(m.output)]

\* Module.load_state_dict(state_dict), strict: parameters whose names and
\* shapes agree are copied, every problem is collected, and a RuntimeError
\* is raised at the end if any was collected
KeysNotIn(a, b) ==
    LET F[i \in 0..Len(a)] ==
            IF i = 0 THEN <<>>
            ELSE IF HasKey(b, a[i].key) THEN F[i - 1] ELSE Append(F[i - 1], a[i].key)
    IN F[Len(a)]

SizeMismatches(own, sd) ==
    LET F[i \in 0..Len(own)] ==
            IF i = 0 THEN <<>>
            ELSE IF HasKey(sd, own[i].key) /\ Lookup(sd, own[i].key).t.shape # own[i].t.shape
                 THEN Append(F[i - 1], own[i].key) ELSE F[i - 1]
    IN F[Len(own)]

\* LoadErrors without the comparison of shapes
LoadErrors_NoShapes(m, sd) ==
    LET own == StateDict(m)
        unexpected == KeysNotIn(sd, own)
        missing == KeysNotIn(own, sd)
    IN [j \in 1..Len(unexpected) |-> [kind |-> "unexpected key", key |-> unexpected[j]]]
       \o [j \in 1..Len(missing) |-> [kind |-> "missing key", key |-> missing[j]]]

LoadErrors(m, sd) ==
    LET own == StateDict(m)
        unexpected == KeysNotIn(sd, own)
        missing == KeysNotIn(own, sd)
        sizes == SizeMismatches(own, sd)
    IN [j \in 1..Len(unexpected) |-> [kind |-> "unexpected key", key |-> unexpected[j]]]
       \o [j \in 1..Len(missing) |-> [kind |-> "missing key", key |-> missing[j]]]
       \o [j \in 1..Len(sizes) |-> [kind |-> "size mismatch", key |-> sizes[j]]]

load_state_dict(m, sd) ==
    LET copied(key, old) ==
            IF HasKey(sd, key) /\ Lookup(sd, key).t.shape = old.shape
            THEN Lookup(sd, key).t ELSE old
        lin(l, name) == [l EXCEPT !.weight = copied(name \o ".weight", @),
                                  !.bias = copied(name \o ".bias", @)]
        m2 == [hidden_layers |->
                  [k \in 1..Len(m.hidden_layers) |->
                      lin(m.hidden_layers[k], "hidden_layers." \o Digits[k])],
               output |-> lin(m.output, "output")]
        errs == LoadErrors(m, sd)
    IN [model |-> m2,
        exc |-> IF Len(errs) > 0
                THEN ExcErrors("RuntimeError",
                               "Error(s) in loading state_dict for Network", errs)
                ELSE NoExc]

\* the objects the notebook hands to torch.save
PyInt(n) == [py |-> "int", v |-> n]
PyList(s) == [py |-> "list", v |-> s]
PyODict(sd) == [py |-> "OrderedDict", v |-> sd]
PyDict(items) == [py |-> "dict", v |-> items]

\* torch.save(obj, path): the pickled object.  A tensor is written as its
\* size and its storage, a mapping as its items in order.
RECURSIVE Pickle(_)
Pickle(o) ==
    CASE o.py = "int" -> <<"I", o.v>>
      [] o.py = "list" -> <<"L", Len(o.v), o.v>>
      [] o.py = "OrderedDict" ->
            <<"O", [j \in 1..Len(o.v) |-> <<o.v[j].key, o.v[j].t.shape, o.v[j].t.val>>]>>
      [] o.py = "dict" ->
            <<"D", [j \in 1..Len(o.v) |-> <<o.v[j].key, Pickle(o.v[j].val)>>]>>

RECURSIVE Unpickle(_)
Unpickle(b) ==
    CASE b[1] = "I" -> PyInt(b[2])
      [] b[1] = "L" -> PyList(SubSeq(b[3], 1, b[2]))
      [] b[1] = "O" ->
            PyODict([j \in 1..Len(b[2]) |->
                        [key |-> b[2][j][1], t |-> Tensor(b[2][j][2], b[2][j][3])]])
      [] b[1] = "D" ->
            PyDict([j \in 1..Len(b[2]) |->
                        [key |-> b[2][j][1], val |-> Unpickle(b[2][j][2])]])

torch_save(obj) == Some(Pickle(obj))

\* torch_load handing back a mapping's items in reverse order
torch_load_Reversed(f) ==
    IF f = None
    THEN [exc |-> Exc("FileNotFoundError", "No such file or directory: 'checkpoint.pth'"),
          val |-> None]
    ELSE LET o == Unpickle(The(f)) IN
         [exc |-> NoExc,
          val |-> Some([o EXCEPT !.v = [j \in 1..Len(@) |-> @[Len(@) + 1 - j]]])]

torch_load(f) ==
    IF f = None
    THEN [exc |-> Exc("FileNotFoundError", "No such file or directory: 'checkpoint.pth'"),
          val |-> None]
    ELSE [exc |-> NoExc, val |-> Some(Unpickle(The(f)))]

\* CheckpointDict with the hidden sizes written out like the other two sizes
CheckpointDict_Literal(input_size, output_size, m) ==
    PyDict(<<[key |-> "input_size", val |-> PyInt(input_size)],
             [key |-> "output_size", val |-> PyInt(output_size)],
             [key |-> "hidden_layers", val |-> PyList(<<512, 256, 128>>)],
             [key |-> "state_dict", val |-> PyODict(StateDict(m))]>>)

\* the notebook's checkpoint dict for a network
CheckpointDict(input_size, output_size, m) ==
    PyDict(<<[key |-> "input_size", val |-> PyInt(input_size)],
             [key |-> "output_size", val |-> PyInt(output_size)],
             [key |-> "hidden_layers", val |-> PyList(HiddenSizes(m))],
             [key |-> "state_dict", val |-> PyODict(StateDict(m))]>>)

\* the first of `keys` that mapping d does not hold (None: it holds them all)
FirstMissing(d, keys) ==
    LET bad == {i \in 1..Len(keys) : ~HasKey(d.v, keys[i])}
    IN IF bad = {} THEN None
       ELSE Some(keys[CHOOSE i \in bad : \A j \in bad : i <= j])

\* load_checkpoint returning the rebuilt network without loading its state
load_checkpoint_NoState(f, seed) ==
    LET loaded == torch_load(f) IN
    IF loaded.exc # NoExc THEN [exc |-> loaded.exc, val |-> None]
    ELSE
    LET ck == The(loaded.val)
        miss == FirstMissing(ck, <<"input_size", "output_size", "hidden_layers">>)
    IN
    IF miss # None THEN [exc |-> Exc("KeyError", The(miss)), val |-> None]
    ELSE [exc |-> NoExc,
          val |-> Some(Network(Lookup(ck.v, "input_size").val.v,
                               Lookup(ck.v, "output_size").val.v,
                               Lookup(ck.v, "hidden_layers").val.v, seed))]

\* load_checkpoint with its body in a try/except that returns None
load_checkpoint_Swallow(f, seed) ==
    LET loaded == torch_load(f) IN
    IF loaded.exc # NoExc THEN [exc |-> NoExc, val |-> None]
    ELSE
    LET ck == The(loaded.val) IN
    IF FirstMissing(ck, <<"input_size", "output_size", "hidden_layers", "state_dict">>) # None
    THEN [exc |-> NoExc, val |-> None]
    ELSE
    LET r == load_state_dict(Network(Lookup(ck.v, "input_size").val.v,
                                     Lookup(ck.v, "output_size").val.v,
                                     Lookup(ck.v, "hidden_layers").val.v, seed),
                             Lookup(ck.v, "state_dict").val.v)
    IN [exc |-> NoExc, val |-> IF r.exc # NoExc THEN None ELSE Some(r.model)]

\* load_checkpoint(filepath): [exc, val]; val is the returned model
load_checkpoint(f, seed) ==
    LET loaded == torch_load(f) IN
    IF loaded.exc # NoExc THEN [exc |-> loaded.exc, val |-> None]
    ELSE
    LET ck == The(loaded.val)
        miss == FirstMissing(ck, <<"input_size", "output_size", "hidden_layers">>)
    IN
    IF miss # None THEN [exc |-> Exc("KeyError", The(miss)), val |-> None]
    ELSE
    LET net == Network(Lookup(ck.v, "input_size").val.v,
                       Lookup(ck.v, "output_size").val.v,
                       Lookup(ck.v, "hidden_layers").val.v, seed)
    IN
    IF ~HasKey(ck.v, "state_dict") THEN [exc |-> Exc("KeyError", "state_dict"), val |-> None]
    ELSE
    LET r == load_state_dict(net, Lookup(ck.v, "state_dict").val.v) IN
    IF r.exc # NoExc THEN [exc |-> r.exc, val |-> None]
    ELSE [exc |-> NoExc, val |-> Some(r.model)]

----------------------------------------------------------------------------
(* Files.  A statement writes 'checkpoint.pth' with torch.save; a dataset
   constructed with download=True, and pip install, write their files only
   where these are not there yet *)

CheckpointPath == "checkpoint.pth"
FashionPath == "~/.pytorch/F_MNIST_data/"
MnistPath == "~/.pytorch/MNIST_data/"
PackagesPath == "site-packages"

\* Writes with the training cell saving its model like the save/load notebook
Writes_TrainingSaves(stmt) ==
    IF stmt \in {"sl_save_sd", "sl_save_ck", "save_state_dict", "save_checkpoint",
                 "checkpoint_cell", "t_new"}
    THEN {CheckpointPath} ELSE {}

\* the paths statement stmt always writes
Writes(stmt) ==
    IF stmt \in {"sl_save_sd", "sl_save_ck", "save_state_dict", "save_checkpoint",
                 "checkpoint_cell"}
    THEN {CheckpointPath} ELSE {}

\* the paths statement stmt writes where the files are missing
Downloads(stmt) ==
    CASE stmt = "sl_data" -> {FashionPath}
      [] stmt = "t_loader" -> {MnistPath}
      [] stmt = "z_install" -> {PackagesPath}
      [] OTHER -> {}

DiskStep(stmt) ==
    \E fresh \in SUBSET Downloads(stmt) : disk' = disk \cup Writes(stmt) \cup fresh

----------------------------------------------------------------------------
(* Kernels that do not run a notebook hold nothing of it *)

SaveLoadIdle ==
    /\ model = None /\ state_dict = None /\ checkpoint = None /\ file = None
    /\ savedModel = None /\ trainedModel = None

ZiplineIdle ==
    /\ zenv = [registered |-> FALSE, zipline_root |-> FALSE,
               bundle_data |-> FALSE, engine |-> FALSE]
    /\ terms = <<>> /\ pipeline = None /\ data = None /\ output = None
    /\ reruns = 0

TrainingIdle ==
    /\ tmodel = None /\ optimizer = None /\ tbatch = None /\ toutput = None
    /\ loss = None /\ remaining = {} /\ e = None /\ running_loss = None
    /\ stdout = [lines |-> 0, last |-> None] /\ iter_ops = <<>>

AutogradIdle == tx = None /\ ty = None /\ tz = None

RegexIdle == sample_text = None /\ regex = None /\ matches = None

----------------------------------------------------------------------------
(* The save/load notebook, cell by cell in document order *)

InputSize == 784
OutputSize == 10
TrainedHidden == <<512, 256, 128>>
OtherHidden == <<400, 200, 100>>

Seeds == 0..(NVals - 1)
Deltas == 1..(NVals - 1)

\* a statement of the save/load notebook that cannot raise
SLStep(from, to, first) ==
    /\ nb = "saveload"
    /\ pc = from
    /\ pc' = to
    /\ exc' = NoExc
    /\ trace' = IF first THEN <<from>> ELSE Append(trace, from)
    /\ DiskStep(pc)
    /\ UNCHANGED <<nb, rVars, zVars, tVars, aVars>>

\* trainset = datasets.FashionMNIST(..., download=True, ...); trainloader;
\* testset; testloader
SLData ==
    /\ SLStep("sl_data", "sl_create", TRUE)
    /\ UNCHANGED slVars

\* model = fc_model.Network(784, 10, [512, 256, 128])
SLCreate ==
    /\ SLStep("sl_create", "sl_train", TRUE)
    /\ \E seed \in Seeds :
          model' = Some(Network(InputSize, OutputSize, TrainedHidden, seed))
    /\ UNCHANGED <<state_dict, checkpoint, file, savedModel, trainedModel>>

\* fc_model.train(model, trainloader, testloader, criterion, optimizer, epochs=2)
SLTrain ==
    /\ SLStep("sl_train", "sl_save_sd", TRUE)
    /\ \E delta \in Deltas : model' = Some(TrainStep(The(model), delta))
    /\ trainedModel' = model'
    /\ UNCHANGED <<state_dict, checkpoint, file, savedModel>>

\* torch.save(model.state_dict(), 'checkpoint.pth')
SLSaveStateDict ==
    /\ SLStep("sl_save_sd", "sl_load", TRUE)
    /\ file' = torch_save(PyODict(StateDict(The(model))))
    /\ savedModel' = model
    /\ UNCHANGED <<model, state_dict, checkpoint, trainedModel>>

\* state_dict = torch.load('checkpoint.pth')
SLLoad ==
    /\ SLStep("sl_load", "sl_load_sd", TRUE)
    /\ state_dict' = torch_load(file).val
    /\ UNCHANGED <<model, checkpoint, file, savedModel, trainedModel>>

\* model.load_state_dict(state_dict)
SLLoadStateDict ==
    /\ SLStep("sl_load_sd", "sl_rebuild", TRUE)
    /\ model' = Some(load_state_dict(The(model), The(state_dict).v).model)
    /\ UNCHANGED <<state_dict, checkpoint, file, savedModel, trainedModel>>

\* model = fc_model.Network(784, 10, [400, 200, 100])
SLRebuild ==
    /\ SLStep("sl_rebuild", "sl_mismatch", TRUE)
    /\ \E seed \in Seeds :
          model' = Some(Network(InputSize, OutputSize, OtherHidden, seed))
    /\ UNCHANGED <<state_dict, checkpoint, file, savedModel, trainedModel>>

\* model.load_state_dict(state_dict), second statement of the same cell
SLMismatch ==
    /\ nb = "saveload"
    /\ pc = "sl_mismatch"
    /\ LET r == load_state_dict(The(model), The(state_dict).v) IN
          /\ model' = Some(r.model)
          /\ exc' = r.exc
    /\ trace' = Append(trace, pc)
    /\ pc' = "sl_checkpoint"
    /\ DiskStep(pc)
    /\ UNCHANGED <<nb, rVars, zVars, tVars, aVars, state_dict, checkpoint, file, savedModel, trainedModel>>

\* checkpoint = {'input_size': 784, 'output_size': 10,
\*               'hidden_layers': [...], 'state_dict': model.state_dict()}
SLCheckpoint ==
    /\ SLStep("sl_checkpoint", "sl_save_ck", TRUE)
    /\ checkpoint' = Some(CheckpointDict(InputSize, OutputSize, The(model)))
    /\ UNCHANGED <<model, state_dict, file, savedModel, trainedModel>>

\* torch.save(checkpoint, 'checkpoint.pth')
SLSaveCheckpoint ==
    /\ SLStep("sl_save_ck", "sl_call", FALSE)
    /\ file' = torch_save(The(checkpoint))
    /\ savedModel' = model
    /\ UNCHANGED <<model, state_dict, checkpoint, trainedModel>>

\* model = load_checkpoint('checkpoint.pth')
SLCall ==
    /\ nb = "saveload"
    /\ pc = "sl_call"
    /\ \E seed \in Seeds :
          LET r == load_checkpoint(file, seed) IN
             /\ exc' = r.exc
             /\ model' = IF r.exc = NoExc THEN r.val ELSE model
    /\ trace' = <<pc>>
    /\ pc' = "sl_done"
    /\ DiskStep(pc)
    /\ UNCHANGED <<nb, rVars, zVars, tVars, aVars, state_dict, checkpoint, file, savedModel, trainedModel>>

InitSaveLoad ==
    /\ nb = "saveload"
    /\ pc = "sl_data"
    /\ exc = NoExc
    /\ trace = <<>>
    /\ disk = {}
    /\ SaveLoadIdle
    /\ ZiplineIdle
    /\ TrainingIdle
    /\ AutogradIdle
    /\ RegexIdle

NextSaveLoad ==
    \/ SLData
    \/ SLCreate \/ SLTrain \/ SLSaveStateDict \/ SLLoad \/ SLLoadStateDict
    \/ SLRebuild \/ SLMismatch \/ SLCheckpoint \/ SLSaveCheckpoint \/ SLCall

----------------------------------------------------------------------------
(* The notebook's checkpoint functions applied to networks of any shape *)

InSizes == {InputSize, 2}
OutSizes == {OutputSize, 2}
HidSizes == {2, 3}
HiddenLists == UNION {[1..n -> HidSizes] : n \in 1..MaxHidden}

InputSizeOf(m) == m.hidden_layers[1].in_features
OutputSizeOf(m) == m.output.out_features
Arch(m) == <<InputSizeOf(m), OutputSizeOf(m), HiddenSizes(m)>>

FnStep(froms, to, label) ==
    /\ nb = "functions"
    /\ pc \in froms
    /\ pc' = to
    /\ trace' = Append(trace, label)
    /\ DiskStep(label)
    /\ UNCHANGED <<nb, rVars, zVars, tVars, aVars>>

\* fc_model.train on the network
FnTrain ==
    /\ FnStep({"fn_start"}, "fn_trained", "train")
    /\ \E delta \in Deltas : model' = Some(TrainStep(The(model), delta))
    /\ trainedModel' = model'
    /\ exc' = NoExc
    /\ UNCHANGED <<state_dict, checkpoint, file, savedModel>>

\* torch.save(model.state_dict(), path)
FnSaveStateDict ==
    /\ FnStep({"fn_start", "fn_trained"}, "fn_saved_sd", "save_state_dict")
    /\ file' = torch_save(PyODict(StateDict(The(model))))
    /\ savedModel' = model
    /\ exc' = NoExc
    /\ UNCHANGED <<model, state_dict, checkpoint, trainedModel>>

\* a checkpoint dict holding the network's own sizes, saved
FnSaveCheckpoint ==
    /\ FnStep({"fn_start", "fn_trained"}, "fn_saved_ck", "save_checkpoint")
    /\ checkpoint' = Some(CheckpointDict(InputSizeOf(The(model)),
                                         OutputSizeOf(The(model)), The(model)))
    /\ file' = torch_save(The(checkpoint'))
    /\ savedModel' = model
    /\ exc' = NoExc
    /\ UNCHANGED <<model, state_dict, trainedModel>>

\* the notebook's checkpoint cell as written (784 and 10), saved
FnCheckpointCell ==
    /\ FnStep({"fn_start", "fn_trained"}, "fn_saved_ck", "checkpoint_cell")
    /\ checkpoint' = Some(CheckpointDict(InputSize, OutputSize, The(model)))
    /\ file' = torch_save(The(checkpoint'))
    /\ savedModel' = model
    /\ exc' = NoExc
    /\ UNCHANGED <<model, state_dict, trainedModel>>

\* state_dict = torch.load(path)
FnTorchLoad ==
    /\ FnStep({"fn_saved_sd"}, "fn_loaded", "torch_load")
    /\ state_dict' = torch_load(file).val
    /\ exc' = NoExc
    /\ UNCHANGED <<model, checkpoint, file, savedModel, trainedModel>>

\* model.load_state_dict(state_dict) into the network it was taken from
FnLoadSame ==
    /\ FnStep({"fn_loaded"}, "fn_end", "load_same")
    /\ LET r == load_state_dict(The(model), The(state_dict).v) IN
          /\ model' = Some(r.model)
          /\ exc' = r.exc
    /\ UNCHANGED <<state_dict, checkpoint, file, savedModel, trainedModel>>

\* model = fc_model.Network(i, o, h); model.load_state_dict(state_dict)
FnLoadOther ==
    /\ FnStep({"fn_loaded"}, "fn_end", "load_other")
    /\ \E i \in InSizes, o \in OutSizes, h \in HiddenLists, seed \in Seeds :
          LET r == load_state_dict(Network(i, o, h, seed), The(state_dict).v) IN
             /\ model' = Some(r.model)
             /\ exc' = r.exc
    /\ UNCHANGED <<state_dict, checkpoint, file, savedModel, trainedModel>>

\* model = load_checkpoint(path)
FnLoadCheckpoint ==
    /\ FnStep({"fn_start", "fn_saved_sd", "fn_saved_ck"}, "fn_end", "load_checkpoint")
    /\ \E seed \in Seeds :
          LET r == load_checkpoint(file, seed) IN
             /\ exc' = r.exc
             /\ model' = IF r.exc = NoExc THEN r.val ELSE model
    /\ UNCHANGED <<state_dict, checkpoint, file, savedModel, trainedModel>>

InitFunctions ==
    /\ nb = "functions"
    /\ pc = "fn_start"
    /\ exc = NoExc
    /\ trace = <<>>
    /\ disk = {}
    /\ \E i \in InSizes, o \in OutSizes, h \in HiddenLists, seed \in Seeds :
          model = Some(Network(i, o, h, seed))
    /\ state_dict = None /\ checkpoint = None /\ file = None
    /\ savedModel = None /\ trainedModel = None
    /\ ZiplineIdle
    /\ TrainingIdle
    /\ AutogradIdle
    /\ RegexIdle

NextFunctions ==
    \/ FnTrain \/ FnSaveStateDict \/ FnSaveCheckpoint \/ FnCheckpointCell
    \/ FnTorchLoad \/ FnLoadSame \/ FnLoadOther \/ FnLoadCheckpoint

----------------------------------------------------------------------------
(* zipline, as the pipeline notebook uses it *)

\* a factor's value for an asset without data on that day
NaN == -1
ScreenWindow == 60
ScreenThreshold == 50000
StartDate == 1
EndDate == NDays
Dates == StartDate..EndDate
\* the days the bundle holds: the run's, one before and one after
BundleDays == (StartDate - 1)..(EndDate + 1)
Assets == 1..NAssets
\* 60-day average dollar volumes the bundle may hold
ADVVals == {NaN, ScreenThreshold - 1, ScreenThreshold, ScreenThreshold + 1}

\* terms of a pipeline, as the expressions that built them
AverageDollarVolume(w) == [op |-> "AverageDollarVolume", window_length |-> w]
SimpleMovingAverage(col, w) ==
    [op |-> "SimpleMovingAverage", input |-> col, window_length |-> w]
DailyReturns(col) == [op |-> "DailyReturns", input |-> col]
Latest(col) == [op |-> "Latest", input |-> col]
BinOp(o, l, r) == [op |-> o, left |-> l, right |-> r]
Top(t, n) == [op |-> "top", of |-> t, n |-> n]

\* float arithmetic on the values of factors: integers with NaN, and quotients
\* [num, den] in lowest terms, where 0/0 is nan and 1/0, -1/0 are inf, -inf
RECURSIVE GCD(_, _)
GCD(x, y) == IF y = 0 THEN x ELSE GCD(y, x % y)
Abs(x) == IF x < 0 THEN 0 - x ELSE x

FSub(x, y) == IF x = NaN \/ y = NaN THEN NaN ELSE x - y

\* x / y with the operands the wrong way round
Sign(x) == IF x < 0 THEN 0 - 1 ELSE IF x > 0 THEN 1 ELSE 0

FDiv_Swapped(x, y) ==
    IF x = NaN \/ y = NaN THEN [num |-> 0, den |-> 0]
    ELSE IF x = 0 THEN [num |-> Sign(y), den |-> 0]
    ELSE LET g == GCD(Abs(y), Abs(x)) IN
         [num |-> (Sign(x) * y) \div g, den |-> Abs(x) \div g]

FDiv(x, y) ==
    IF x = NaN \/ y = NaN THEN [num |-> 0, den |-> 0]
    ELSE IF y = 0 THEN [num |-> Sign(x), den |-> 0]
    ELSE LET g == GCD(Abs(x), Abs(y)) IN
         [num |-> (Sign(y) * x) \div g, den |-> Abs(y) \div g]

\* the assets the data holds on day d
AssetsOn(dat, d) == {r[2] : r \in {q \in DOMAIN dat.adv : q[1] = d}}

RECURSIVE EvalFactor(_, _, _, _)
RECURSIVE EvalFilter(_, _, _, _)

\* a factor's value on a day for an asset
EvalFactor(t, dat, d, a) ==
    CASE t.op = "AverageDollarVolume" -> dat.adv[<<d, a>>][t.window_length]
      [] t.op = "SimpleMovingAverage" -> dat.sma[<<d, a>>][t.window_length]
      [] t.op = "DailyReturns" -> dat.ret[<<d, a>>]
      [] t.op = "Latest" -> dat.latest[<<d, a>>]
      [] t.op = "-" -> FSub(EvalFactor(t.left, dat, d, a), EvalFactor(t.right, dat, d, a))
      [] t.op = "/" -> FDiv(EvalFactor(t.left, dat, d, a), EvalFactor(t.right, dat, d, a))

\* factor.top(n): the rank of the asset's value among the day's values, largest
\* first, equal values in the order of the assets, is at most n
InTop(t, dat, d, a) ==
    LET x == EvalFactor(t.of, dat, d, a)
        ahead == {b \in AssetsOn(dat, d) :
                    LET y == EvalFactor(t.of, dat, d, b)
                    IN y # NaN /\ (y > x \/ (y = x /\ b < a))}
    IN x # NaN /\ Cardinality(ahead) < t.n

\* a filter with >= for >
EvalFilter_AtLeast(t, dat, d, a) ==
    CASE t.op = ">" ->
            LET x == EvalFactor(t.left, dat, d, a) IN x # NaN /\ x >= t.right
      [] t.op = "top" -> InTop(t, dat, d, a)
      [] t.op = "&" -> EvalFilter(t.left, dat, d, a) /\ EvalFilter(t.right, dat, d, a)

\* a filter with | for &
EvalFilter_Or(t, dat, d, a) ==
    CASE t.op = ">" ->
            LET x == EvalFactor(t.left, dat, d, a) IN x # NaN /\ x > t.right
      [] t.op = "top" -> InTop(t, dat, d, a)
      [] t.op = "&" -> EvalFilter(t.left, dat, d, a) \/ EvalFilter(t.right, dat, d, a)

\* a filter's value on a day for an asset (a comparison with NaN is False)
EvalFilter(t, dat, d, a) ==
    CASE t.op = ">" ->
            LET x == EvalFactor(t.left, dat, d, a) IN x # NaN /\ x > t.right
      [] t.op = "top" -> InTop(t, dat, d, a)
      [] t.op = "&" -> EvalFilter(t.left, dat, d, a) /\ EvalFilter(t.right, dat, d, a)

\* Pipeline(screen = ...)
Pipeline(screen) == [screen |-> screen, columns |-> <<>>]

\* Pipeline.add with overwrite=True
pipeline_add_Overwrite(p, term, name) ==
    [exc |-> NoExc,
     pipeline |->
        IF HasKey(p.columns, name)
        THEN [p EXCEPT !.columns =
                 [j \in 1..Len(@) |->
                     IF @[j].key = name THEN [key |-> name, term |-> term] ELSE @[j]]]
        ELSE [p EXCEPT !.columns = Append(@, [key |-> name, term |-> term])]]

\* Pipeline.add(term, name)
pipeline_add(p, term, name) ==
    IF HasKey(p.columns, name)
    THEN [exc |-> Exc("KeyError", "Column '" \o name \o "' already exists."),
          pipeline |-> p]
    ELSE [exc |-> NoExc,
          pipeline |-> [p EXCEPT !.columns = Append(@, [key |-> name, term |-> term])]]

\* run_pipeline over every day the bundle holds
run_pipeline_AllDates(p, start_date, end_date, dat) ==
    [index |-> {r \in DOMAIN dat.adv : EvalFilter(p.screen, dat, r[1], r[2])},
     columns |-> {p.columns[j].key : j \in 1..Len(p.columns)}]

\* engine.run_pipeline(pipeline, start_date, end_date): the rows of the days
\* from start_date to end_date that the screen lets through, and the columns
\* of the pipeline
run_pipeline(p, start_date, end_date, dat) ==
    [index |-> {r \in DOMAIN dat.adv :
                   /\ start_date <= r[1] /\ r[1] <= end_date
                   /\ EvalFilter(p.screen, dat, r[1], r[2])},
     columns |-> {p.columns[j].key : j \in 1..Len(p.columns)}]

----------------------------------------------------------------------------
(* The zipline notebook, cell by cell in document order *)

ZStep(from, to, first) ==
    /\ nb = "zipline"
    /\ pc = from
    /\ pc' = to
    /\ trace' = IF first THEN <<from>> ELSE Append(trace, from)
    /\ DiskStep(pc)
    /\ UNCHANGED <<nb, slVars, tVars, aVars, rVars>>

\* !{sys.executable} -m pip install -r requirements.txt
ZInstall ==
    /\ ZStep("z_install", "z_register", TRUE)
    /\ exc' = NoExc
    /\ UNCHANGED zVars

\* bundles.register(bundle_name, ingest_func)
ZRegister ==
    /\ ZStep("z_register", "z_environ", TRUE)
    /\ zenv' = [zenv EXCEPT !.registered = TRUE]
    /\ exc' = NoExc
    /\ UNCHANGED <<terms, pipeline, data, output, reruns>>

\* the cell without the assignment to os.environ
ZEnviron_NotSet ==
    /\ ZStep("z_environ", "z_load_bundle", FALSE)
    /\ exc' = NoExc
    /\ UNCHANGED <<zenv, terms, pipeline, data, output, reruns>>

\* os.environ['ZIPLINE_ROOT'] = ...
ZEnviron ==
    /\ ZStep("z_environ", "z_load_bundle", FALSE)
    /\ zenv' = [zenv EXCEPT !.zipline_root = TRUE]
    /\ exc' = NoExc
    /\ UNCHANGED <<terms, pipeline, data, output, reruns>>

\* bundle_data = bundles.load(bundle_name)
ZLoadBundle ==
    /\ ZStep("z_load_bundle", "z_universe", FALSE)
    /\ zenv' = [zenv EXCEPT !.bundle_data = TRUE]
    /\ exc' = NoExc
    /\ UNCHANGED <<terms, pipeline, data, output, reruns>>

\* universe = AverageDollarVolume(window_length = 60) > 50000
Universe == BinOp(">", AverageDollarVolume(ScreenWindow), ScreenThreshold)

ZUniverse ==
    /\ ZStep("z_universe", "z_pipeline", TRUE)
    /\ terms' = Append(terms, [key |-> "universe", term |-> Universe])
    /\ exc' = NoExc
    /\ UNCHANGED <<zenv, pipeline, data, output, reruns>>

\* pipeline = Pipeline(screen = universe)
ZPipeline ==
    /\ ZStep("z_pipeline", "z_engine", FALSE)
    /\ pipeline' = Some(Pipeline(Lookup(terms, "universe").term))
    /\ exc' = NoExc
    /\ UNCHANGED <<zenv, terms, data, output, reruns>>

\* engine = SimplePipelineEngine(...)
ZEngine ==
    /\ ZStep("z_engine", "z_terms", TRUE)
    /\ zenv' = [zenv EXCEPT !.engine = TRUE]
    /\ exc' = NoExc
    /\ UNCHANGED <<terms, pipeline, data, output, reruns>>

\* the factors and filters of the notebook
FactorCell ==
    LET mean_close_30 == SimpleMovingAverage("close", 30)
        mean_close_60 == SimpleMovingAverage("close", 60)
        top_20 == Top(AverageDollarVolume(30), 20)
        above_30 == BinOp(">", Latest("close"), 30)
    IN <<[key |-> "mean_close_30", term |-> mean_close_30],
         [key |-> "mean_close_60", term |-> mean_close_60],
         [key |-> "percent_difference",
          term |-> BinOp("/", BinOp("-", mean_close_30, mean_close_60), mean_close_60)],
         [key |-> "daily_ret", term |-> DailyReturns("close")],
         [key |-> "top_20", term |-> top_20],
         [key |-> "above_30", term |-> above_30],
         [key |-> "tradable_asset", term |-> BinOp("&", top_20, above_30)]>>

ZTerms ==
    /\ ZStep("z_terms", "z_add1", TRUE)
    /\ terms' = terms \o FactorCell
    /\ exc' = NoExc
    /\ UNCHANGED <<zenv, pipeline, data, output, reruns>>

\* a pipeline.add statement: on an exception the cell ends there
ZAdd(from, next, after, first, var, name) ==
    /\ nb = "zipline"
    /\ pc = from
    /\ trace' = IF first THEN <<from>> ELSE Append(trace, from)
    /\ LET r == pipeline_add(The(pipeline), Lookup(terms, var).term, name) IN
          /\ pipeline' = Some(r.pipeline)
          /\ exc' = r.exc
          /\ pc' = IF r.exc = NoExc THEN next ELSE after
    /\ DiskStep(pc)
    /\ UNCHANGED <<nb, slVars, tVars, aVars, rVars, zenv, terms, data, output, reruns>>

\* pipeline.add(percent_difference, 'custom factor')
ZAdd1 == ZAdd("z_add1", "z_add2", "z_add3", TRUE, "percent_difference", "custom factor")

\* pipeline.add(daily_ret, 'daily return')
ZAdd2 == ZAdd("z_add2", "z_add3", "z_add3", FALSE, "daily_ret", "daily return")

\* the cell of the two adds is executed once more
ZRerunAddCell ==
    /\ nb = "zipline"
    /\ pc = "z_add3"
    /\ reruns < MaxReruns
    /\ reruns' = reruns + 1
    /\ pc' = "z_add1"
    /\ exc' = NoExc
    /\ trace' = <<>>
    /\ DiskStep(pc)
    /\ UNCHANGED <<nb, slVars, tVars, aVars, rVars, zenv, terms, pipeline, data, output>>

\* pipeline.add(tradable_asset, 'custom filter')
ZAdd3 == ZAdd("z_add3", "z_run", "z_run", TRUE, "tradable_asset", "custom filter")

\* output = engine.run_pipeline(pipeline, start_date, end_date)
ZRun ==
    /\ ZStep("z_run", "z_done", TRUE)
    /\ \E adv \in [Dates \X Assets -> ADVVals] :
          /\ data' = Some([adv |-> [r \in BundleDays \X Assets |->
                                       [w \in {ScreenWindow} |->
                                           IF r[1] \in Dates THEN adv[r]
                                           ELSE ScreenThreshold + 1]]])
          /\ output' = Some(run_pipeline(The(pipeline), StartDate, EndDate,
                                         The(data')))
    /\ exc' = NoExc
    /\ UNCHANGED <<zenv, terms, pipeline, reruns>>

InitZipline ==
    /\ nb = "zipline"
    /\ pc = "z_install"
    /\ exc = NoExc
    /\ trace = <<>>
    /\ disk = {}
    /\ SaveLoadIdle
    /\ ZiplineIdle
    /\ TrainingIdle
    /\ AutogradIdle
    /\ RegexIdle

NextZipline ==
    \/ ZInstall
    \/ ZRegister \/ ZEnviron \/ ZLoadBundle \/ ZUniverse \/ ZPipeline \/ ZEngine
    \/ ZTerms \/ ZAdd1 \/ ZAdd2 \/ ZRerunAddCell \/ ZAdd3 \/ ZRun

----------------------------------------------------------------------------
(* The factors and filters of the notebook, evaluated on one day's data *)

TermAssets == 1..NTermAssets
CloseVals == <<NaN, 29, 30, 31>>
SmaVals == <<NaN, 20, 30, 45>>

\* one day's data: the assets' 30-day dollar volumes are a rotation of
\* 1..NTermAssets (halved when ties are asked for, one of them missing when
\* nanAt is an asset); closes and averages run through their values
DayData(rot, ties, nanAt, shift) ==
    LET row(a) == <<StartDate, a>>
        vol(a) == IF a = nanAt THEN NaN
                  ELSE 1 + (((a + rot) % NTermAssets) \div (IF ties THEN 2 ELSE 1))
    IN [adv |-> [r \in {StartDate} \X TermAssets |->
                    [w \in {30, ScreenWindow} |-> vol(r[2])]],
        latest |-> [r \in {StartDate} \X TermAssets |->
                    CloseVals[((r[2] + shift) % 4) + 1]],
        sma |-> [r \in {StartDate} \X TermAssets |->
                    [w \in {30, 60} |->
                        IF w = 30 THEN SmaVals[(r[2] % 4) + 1]
                        ELSE SmaVals[((r[2] \div 4) % 4) + 1]]],
        ret |-> [r \in {StartDate} \X TermAssets |-> (r[2] % 3) - 1]]

FilterNames == {"top_20", "above_30", "tradable_asset"}
FactorNames == {"mean_close_30", "mean_close_60", "percent_difference", "daily_ret"}

TmStep(to) ==
    /\ nb = "terms"
    /\ pc = "tm_start"
    /\ pc' = to
    /\ DiskStep(pc)
    /\ UNCHANGED <<nb, exc, trace, slVars, tVars, aVars, rVars, zenv, terms, pipeline, data, reruns>>

\* the values of a filter for the assets of the day
TmEvalFilter ==
    /\ TmStep("tm_filter")
    /\ \E name \in FilterNames :
          output' = Some([name |-> name,
                          values |-> [a \in TermAssets |->
                              EvalFilter(Lookup(terms, name).term, The(data),
                                         StartDate, a)]])

\* the values of a factor for the assets of the day
TmEvalFactor ==
    /\ TmStep("tm_factor")
    /\ \E name \in FactorNames :
          output' = Some([name |-> name,
                          values |-> [a \in TermAssets |->
                              EvalFactor(Lookup(terms, name).term, The(data),
                                         StartDate, a)]])

InitTerms ==
    /\ nb = "terms"
    /\ pc = "tm_start"
    /\ exc = NoExc
    /\ trace = <<>>
    /\ disk = {}
    /\ SaveLoadIdle
    /\ TrainingIdle
    /\ AutogradIdle
    /\ RegexIdle
    /\ zenv = [registered |-> TRUE, zipline_root |-> TRUE,
               bundle_data |-> TRUE, engine |-> TRUE]
    /\ terms = FactorCell
    /\ pipeline = None /\ output = None /\ reruns = 0
    /\ \E rot \in 0..(NTermAssets - 1), ties \in BOOLEAN,
          nanAt \in {0, 1, NTermAssets}, shift \in 0..1 :
          data = Some(DayData(rot, ties, nanAt, shift))

NextTerms == TmEvalFilter \/ TmEvalFactor

----------------------------------------------------------------------------
(* autograd, as the cells on x, y and z of the training notebook use it.
   These cells bind x, y and z only, which no later cell reads. *)

\* tensor elements are quotients [num, den] in lowest terms, den > 0
Rat(n, d) ==
    LET g == GCD(Abs(n), Abs(d))
    IN [num |-> (Sign(d) * n) \div g, den |-> Abs(d) \div g]
RAdd(a, b) == Rat(a.num * b.den + b.num * a.den, a.den * b.den)
RMul(a, b) == Rat(a.num * b.num, a.den * b.den)

XVals == (0 - XMax)..XMax
\* the positions of a 2 x 2 tensor
Idx == (1..2) \X (1..2)

\* x ** k
RECURSIVE RPow(_, _)
RPow(a, k) == IF k = 0 THEN Rat(1, 1) ELSE RMul(a, RPow(a, k - 1))

\* the backward function of mean() without the division by the element count
MeanBackward_Sum(g, n) == g

\* MeanBackward: each of the n elements gets 1/n of the gradient of the mean
MeanBackward(g, n) == RMul(g, Rat(1, n))

\* PowBackward: the element a of the input of a ** k gets k * a^(k-1) * g
PowBackward(g, a, k) == RMul(RMul(Rat(k, 1), RPow(a, k - 1)), g)

\* z.backward(): from z through y to x, added to x.grad where there is one
backward(x, y, z) ==
    LET gy == [i \in Idx |-> MeanBackward(Rat(1, 1), z.grad_fn.n)]
        gx == [i \in Idx |-> PowBackward(gy[i], x.data[i], y.grad_fn.exponent)]
    IN [x EXCEPT !.grad =
          Some([i \in Idx |->
                  IF x.grad = None THEN gx[i] ELSE RAdd(The(x.grad)[i], gx[i])])]

AStep(from, to) ==
    /\ nb = "autograd"
    /\ pc = from
    /\ pc' = to
    /\ DiskStep(pc)
    /\ UNCHANGED <<nb, exc, trace, slVars, zVars, tVars, rVars>>

\* x = torch.randn(2,2, requires_grad=True)
AX ==
    /\ AStep("a_x", "a_y")
    /\ \E v \in [Idx -> XVals] :
          tx' = Some([data |-> [i \in Idx |-> Rat(v[i], 1)], grad |-> None])
    /\ UNCHANGED <<ty, tz>>

\* y = x**2
AY ==
    /\ AStep("a_y", "a_z")
    /\ ty' = Some([data |-> [i \in Idx |-> RPow(The(tx).data[i], 2)],
                   grad_fn |-> [op |-> "PowBackward0", exponent |-> 2]])
    /\ UNCHANGED <<tx, tz>>

\* the sum of the elements of a tensor
RECURSIVE RSum(_, _)
RSum(t, is) ==
    IF is = {} THEN Rat(0, 1)
    ELSE LET i == CHOOSE j \in is : TRUE IN RAdd(t[i], RSum(t, is \ {i}))

\* z = y.mean()
AZ ==
    /\ AStep("a_z", "a_grad")
    /\ tz' = Some([data |-> RMul(RSum(The(ty).data, Idx), Rat(1, Cardinality(Idx))),
                   grad_fn |-> [op |-> "MeanBackward1", n |-> Cardinality(Idx)]])
    /\ UNCHANGED <<tx, ty>>

\* print(x.grad)
APrintGrad ==
    /\ AStep("a_grad", "a_backward")
    /\ UNCHANGED <<tx, ty, tz>>

\* z.backward(); print(x.grad); print(x/2)
ABackward ==
    /\ AStep("a_backward", "a_done")
    /\ tx' = Some(backward(The(tx), The(ty), The(tz)))
    /\ UNCHANGED <<ty, tz>>

InitAutograd ==
    /\ nb = "autograd"
    /\ pc = "a_x"
    /\ exc = NoExc
    /\ trace = <<>>
    /\ disk = {}
    /\ SaveLoadIdle
    /\ ZiplineIdle
    /\ TrainingIdle
    /\ AutogradIdle
    /\ RegexIdle

NextAutograd == AX \/ AY \/ AZ \/ APrintGrad \/ ABackward

----------------------------------------------------------------------------
(* torch, as the training notebook uses it *)

Params == {"weight", "bias"}
WVals == 0..(WMod - 1)
Batches == 1..NBatches
Epochs == 5

\* a network whose parameters are built with zero gradients
Sequential_ZeroGrads(id, w) == [id |-> id, w |-> w, grad |-> [p \in Params |-> Some(0)]]

\* nn.Sequential(...): randomly initialised parameters, no gradients yet
Sequential(id, w) == [id |-> id, w |-> w, grad |-> [p \in Params |-> None]]

\* optim.SGD(model.parameters(), lr): lr in thousandths
SGD(m, lr) == [params |-> m.id, lr |-> lr]

\* model(images), and criterion(output, labels) on it: the graph of the
\* result, over the parameters and the batch it was computed from
Forward(m, b) == [of |-> m.id, w |-> m.w, batch |-> b]

\* the gradient of a batch's loss with respect to parameter p
GradOf(w, b, p) == 1 + ((w[p] + b + (IF p = "weight" THEN 0 ELSE 1)) % 2)

\* loss.item()
LossItem(l) == (l.w["weight"] + l.w["bias"] + l.batch) % 2

\* a backward pass that replaces each parameter's .grad
Backward_Overwrite(m, l) ==
    IF l.of # m.id THEN m
    ELSE [m EXCEPT !.grad = [p \in Params |-> Some(GradOf(l.w, l.batch, p))]]

\* loss.backward(): adds the gradient to each parameter's .grad
Backward(m, l) ==
    IF l.of # m.id THEN m
    ELSE [m EXCEPT !.grad =
            [p \in Params |->
                Some((IF m.grad[p] = None THEN 0 ELSE The(m.grad[p]))
                     + GradOf(l.w, l.batch, p))]]

\* zero_grad that leaves the gradients as they are
ZeroGrad_Noop(opt, m) == m

\* optimizer.zero_grad(): zeroes the .grad of each parameter that has one
ZeroGrad(opt, m) ==
    IF opt.params # m.id THEN m
    ELSE [m EXCEPT !.grad =
            [p \in Params |-> IF m.grad[p] = None THEN None ELSE Some(0)]]

\* optimizer.step(): p = p - lr * p.grad for each parameter that has a .grad
SGDStep(opt, m) ==
    IF opt.params # m.id THEN m
    ELSE [m EXCEPT !.w =
            [p \in Params |->
                IF m.grad[p] = None THEN m.w[p]
                ELSE (m.w[p] + WMod * opt.lr * The(m.grad[p])
                      - opt.lr * The(m.grad[p])) % WMod]]

----------------------------------------------------------------------------
(* The training notebook, cell by cell in document order *)

TStep(from, to) ==
    /\ nb = "training"
    /\ pc = from
    /\ pc' = to
    /\ DiskStep(pc)
    /\ UNCHANGED <<nb, exc, trace, slVars, zVars, rVars, aVars>>

\* trainloader = torch.utils.data.DataLoader(trainset, batch_size=64, shuffle=True)
TLoader ==
    /\ TStep("t_loader", "t_build")
    /\ UNCHANGED tVars

\* model = nn.Sequential(...); criterion; images, labels = next(iter(trainloader));
\* logits = model(images); loss = criterion(logits, labels)
TBuild ==
    /\ TStep("t_build", "t_first_backward")
    /\ \E w \in [Params -> WVals], b \in Batches :
          /\ tmodel' = Some(Sequential(1, w))
          /\ tbatch' = Some(b)
          /\ toutput' = Some(Forward(The(tmodel'), b))
          /\ loss' = toutput'
    /\ UNCHANGED <<optimizer, remaining, e, running_loss, stdout, iter_ops>>

\* loss.backward()
TFirstBackward ==
    /\ TStep("t_first_backward", "t_optimizer")
    /\ tmodel' = Some(Backward(The(tmodel), The(loss)))
    /\ UNCHANGED <<optimizer, tbatch, toutput, loss, remaining, e, running_loss,
                   stdout, iter_ops>>

\* optimizer = optim.SGD(model.parameters(), lr=0.01)
TOptimizer ==
    /\ TStep("t_optimizer", "d_next")
    /\ optimizer' = Some(SGD(The(tmodel), 10))
    /\ UNCHANGED <<tmodel, tbatch, toutput, loss, remaining, e, running_loss,
                   stdout, iter_ops>>

\* images, labels = next(iter(trainloader)); images.resize_(64, 784)
DNext ==
    /\ TStep("d_next", "d_zero_grad")
    /\ \E b \in Batches : tbatch' = Some(b)
    /\ iter_ops' = <<>>
    /\ UNCHANGED <<tmodel, optimizer, toutput, loss, remaining, e, running_loss, stdout>>

\* optimizer.zero_grad()
DZeroGrad ==
    /\ TStep("d_zero_grad", "d_forward")
    /\ tmodel' = Some(ZeroGrad(The(optimizer), The(tmodel)))
    /\ iter_ops' = Append(iter_ops, "zero_grad")
    /\ UNCHANGED <<optimizer, tbatch, toutput, loss, remaining, e, running_loss, stdout>>

\* output = model(images)
DForward ==
    /\ TStep("d_forward", "d_loss")
    /\ toutput' = Some(Forward(The(tmodel), The(tbatch)))
    /\ iter_ops' = Append(iter_ops, "forward")
    /\ UNCHANGED <<tmodel, optimizer, tbatch, loss, remaining, e, running_loss, stdout>>

\* loss = criterion(output, labels)
DLoss ==
    /\ TStep("d_loss", "d_backward")
    /\ loss' = toutput
    /\ iter_ops' = Append(iter_ops, "loss")
    /\ UNCHANGED <<tmodel, optimizer, tbatch, toutput, remaining, e, running_loss, stdout>>

\* loss.backward()
DBackward ==
    /\ TStep("d_backward", "d_step")
    /\ tmodel' = Some(Backward(The(tmodel), The(loss)))
    /\ iter_ops' = Append(iter_ops, "backward")
    /\ UNCHANGED <<optimizer, tbatch, toutput, loss, remaining, e, running_loss, stdout>>

\* optimizer.step()
DStep ==
    /\ TStep("d_step", "t_new")
    /\ tmodel' = Some(SGDStep(The(optimizer), The(tmodel)))
    /\ iter_ops' = Append(iter_ops, "step")
    /\ UNCHANGED <<optimizer, tbatch, toutput, loss, remaining, e, running_loss, stdout>>

\* model = nn.Sequential(...); criterion = nn.NLLLoss();
\* optimizer = optim.SGD(model.parameters(), lr=0.003); epochs = 5
TNew ==
    /\ TStep("t_new", "t_epoch")
    /\ \E w \in [Params -> WVals] : tmodel' = Some(Sequential(2, w))
    /\ optimizer' = Some(SGD(The(tmodel'), 3))
    /\ iter_ops' = <<>>
    /\ UNCHANGED <<tbatch, toutput, loss, remaining, e, running_loss, stdout>>

\* the epoch loop with running_loss = 0 before the loop instead of in it
TEpoch_NoReset ==
    /\ nb = "training"
    /\ pc = "t_epoch"
    /\ LET n == IF e = None THEN 0 ELSE The(e) + 1 IN
          IF n < Epochs
          THEN /\ e' = Some(n)
               /\ running_loss' = IF n = 0 THEN Some(0) ELSE running_loss
               /\ remaining' = Batches
               /\ pc' = "t_for"
          ELSE /\ pc' = "t_done"
               /\ UNCHANGED <<e, running_loss, remaining>>
    /\ DiskStep(pc)
    /\ UNCHANGED <<nb, exc, trace, slVars, zVars, rVars, aVars>>
    /\ UNCHANGED <<tmodel, optimizer, tbatch, toutput, loss, stdout, iter_ops>>

\* for e in range(epochs): running_loss = 0, and the iterator of the inner for
TEpoch ==
    /\ nb = "training"
    /\ pc = "t_epoch"
    /\ LET n == IF e = None THEN 0 ELSE The(e) + 1 IN
          IF n < Epochs
          THEN /\ e' = Some(n)
               /\ running_loss' = Some(0)
               /\ remaining' = Batches
               /\ pc' = "t_for"
          ELSE /\ pc' = "t_done"
               /\ UNCHANGED <<e, running_loss, remaining>>
    /\ DiskStep(pc)
    /\ UNCHANGED <<nb, exc, trace, slVars, zVars, rVars, aVars>>
    /\ UNCHANGED <<tmodel, optimizer, tbatch, toutput, loss, stdout, iter_ops>>

\* the statements of the training pass, in the order of the cell
LoopBody_StepFirst ==
    <<"t_view", "t_zero_grad", "t_forward", "t_loss", "t_step", "t_backward",
      "t_running">>

LoopBody ==
    <<"t_view", "t_zero_grad", "t_forward", "t_loss", "t_backward", "t_step",
      "t_running">>

\* the statement after statement s of the loop's body
After(s) ==
    LET j == CHOOSE k \in 1..Len(LoopBody) : LoopBody[k] = s
    IN IF j = Len(LoopBody) THEN "t_for" ELSE LoopBody[j + 1]

\* the inner for over a loader that yields a batch again
TFor_Replay ==
    /\ nb = "training"
    /\ pc = "t_for"
    /\ IF remaining # {}
       THEN /\ \E b \in remaining, keep \in BOOLEAN :
                  /\ tbatch' = Some(b)
                  /\ remaining' = IF keep THEN remaining ELSE remaining \ {b}
            /\ iter_ops' = <<>>
            /\ pc' = LoopBody[1]
            /\ UNCHANGED stdout
       ELSE /\ stdout' = [lines |-> stdout.lines + 1,
                          last |-> Some(<<The(running_loss), NBatches>>)]
            /\ pc' = "t_epoch"
            /\ UNCHANGED <<tbatch, remaining, iter_ops>>
    /\ DiskStep(pc)
    /\ UNCHANGED <<nb, exc, trace, slVars, zVars, rVars, aVars>>
    /\ UNCHANGED <<tmodel, optimizer, toutput, loss, e, running_loss>>

\* for images, labels in trainloader: ... else: print(...)
TFor ==
    /\ nb = "training"
    /\ pc = "t_for"
    /\ IF remaining # {}
       THEN /\ \E b \in remaining :
                  /\ tbatch' = Some(b)
                  /\ remaining' = remaining \ {b}
            /\ iter_ops' = <<>>
            /\ pc' = LoopBody[1]
            /\ UNCHANGED stdout
       ELSE /\ stdout' = [lines |-> stdout.lines + 1,
                          last |-> Some(<<The(running_loss), NBatches>>)]
            /\ pc' = "t_epoch"
            /\ UNCHANGED <<tbatch, remaining, iter_ops>>
    /\ DiskStep(pc)
    /\ UNCHANGED <<nb, exc, trace, slVars, zVars, rVars, aVars>>
    /\ UNCHANGED <<tmodel, optimizer, toutput, loss, e, running_loss>>

\* images = images.view(images.shape[0], -1)
TView ==
    /\ TStep("t_view", After("t_view"))
    /\ UNCHANGED tVars

\* optimizer.zero_grad()
TZeroGrad ==
    /\ TStep("t_zero_grad", After("t_zero_grad"))
    /\ tmodel' = Some(ZeroGrad(The(optimizer), The(tmodel)))
    /\ iter_ops' = Append(iter_ops, "zero_grad")
    /\ UNCHANGED <<optimizer, tbatch, toutput, loss, remaining, e, running_loss, stdout>>

\* output = model(images)
TForward ==
    /\ TStep("t_forward", After("t_forward"))
    /\ toutput' = Some(Forward(The(tmodel), The(tbatch)))
    /\ iter_ops' = Append(iter_ops, "forward")
    /\ UNCHANGED <<tmodel, optimizer, tbatch, loss, remaining, e, running_loss, stdout>>

\* loss = criterion(output, labels)
TLoss ==
    /\ TStep("t_loss", After("t_loss"))
    /\ loss' = toutput
    /\ iter_ops' = Append(iter_ops, "loss")
    /\ UNCHANGED <<tmodel, optimizer, tbatch, toutput, remaining, e, running_loss, stdout>>

\* loss.backward()
TBackward ==
    /\ TStep("t_backward", After("t_backward"))
    /\ tmodel' = Some(Backward(The(tmodel), The(loss)))
    /\ iter_ops' = Append(iter_ops, "backward")
    /\ UNCHANGED <<optimizer, tbatch, toutput, loss, remaining, e, running_loss, stdout>>

\* optimizer.step()
TOptStep ==
    /\ TStep("t_step", After("t_step"))
    /\ tmodel' = Some(SGDStep(The(optimizer), The(tmodel)))
    /\ iter_ops' = Append(iter_ops, "step")
    /\ UNCHANGED <<optimizer, tbatch, toutput, loss, remaining, e, running_loss, stdout>>

\* running_loss += loss.item()
TRunning ==
    /\ TStep("t_running", After("t_running"))
    /\ running_loss' = Some(The(running_loss) + LossItem(The(loss)))
    /\ UNCHANGED <<tmodel, optimizer, tbatch, toutput, loss, remaining, e, stdout,
                   iter_ops>>

InitTraining ==
    /\ nb = "training"
    /\ pc = "t_loader"
    /\ exc = NoExc
    /\ trace = <<>>
    /\ disk = {}
    /\ SaveLoadIdle
    /\ ZiplineIdle
    /\ TrainingIdle
    /\ AutogradIdle
    /\ RegexIdle

NextTraining ==
    \/ TLoader \/ TBuild \/ TFirstBackward \/ TOptimizer
    \/ DNext \/ DZeroGrad \/ DForward \/ DLoss \/ DBackward \/ DStep
    \/ TNew \/ TEpoch \/ TFor
    \/ TView \/ TZeroGrad \/ TForward \/ TLoss \/ TBackward \/ TOptStep \/ TRunning

----------------------------------------------------------------------------
(* Two backward passes on the parameters of one model, with and without the
   optimizer.zero_grad() of the single-step cell between them *)

GStep(from, to) ==
    /\ nb = "accumulate"
    /\ pc = from
    /\ pc' = to
    /\ DiskStep(pc)
    /\ UNCHANGED <<nb, exc, trace, slVars, zVars, rVars, aVars>>

\* model = nn.Sequential(...); images, labels = next(iter(trainloader));
\* logits = model(images); loss = criterion(logits, labels);
\* optimizer = optim.SGD(model.parameters(), lr=0.01)
GBuild ==
    /\ GStep("g_build", "g_backward")
    /\ \E w \in [Params -> WVals], b \in Batches :
          /\ tmodel' = Some(Sequential(1, w))
          /\ tbatch' = Some(b)
          /\ toutput' = Some(Forward(The(tmodel'), b))
          /\ loss' = toutput'
    /\ optimizer' = Some(SGD(The(tmodel'), 10))
    /\ iter_ops' = <<>>
    /\ UNCHANGED <<remaining, e, running_loss, stdout>>

\* loss.backward(), the first pass
GBackward ==
    /\ GStep("g_backward", "g_between")
    /\ tmodel' = Some(Backward(The(tmodel), The(loss)))
    /\ iter_ops' = Append(iter_ops, "backward")
    /\ UNCHANGED <<optimizer, tbatch, toutput, loss, remaining, e, running_loss, stdout>>

\* optimizer.zero_grad()
GZeroGrad ==
    /\ GStep("g_between", "g_next")
    /\ tmodel' = Some(ZeroGrad(The(optimizer), The(tmodel)))
    /\ iter_ops' = Append(iter_ops, "zero_grad")
    /\ UNCHANGED <<optimizer, tbatch, toutput, loss, remaining, e, running_loss, stdout>>

\* the cell without its optimizer.zero_grad()
GNoZeroGrad ==
    /\ GStep("g_between", "g_next")
    /\ UNCHANGED tVars

\* images, labels = next(iter(trainloader)); output = model(images);
\* loss = criterion(output, labels), `output` kept as the first pass left it
GNext ==
    /\ GStep("g_next", "g_again")
    /\ \E b \in Batches :
          /\ tbatch' = Some(b)
          /\ loss' = Some(Forward(The(tmodel), b))
    /\ UNCHANGED <<tmodel, optimizer, toutput, remaining, e, running_loss, stdout, iter_ops>>

\* loss.backward(), the second pass
GAgain ==
    /\ GStep("g_again", "g_done")
    /\ tmodel' = Some(Backward(The(tmodel), The(loss)))
    /\ iter_ops' = Append(iter_ops, "backward")
    /\ UNCHANGED <<optimizer, tbatch, toutput, loss, remaining, e, running_loss, stdout>>

InitAccumulate ==
    /\ nb = "accumulate"
    /\ pc = "g_build"
    /\ exc = NoExc
    /\ trace = <<>>
    /\ disk = {}
    /\ SaveLoadIdle
    /\ ZiplineIdle
    /\ TrainingIdle
    /\ AutogradIdle
    /\ RegexIdle

NextAccumulate == GBuild \/ GBackward \/ GZeroGrad \/ GNoZeroGrad \/ GNext \/ GAgain

----------------------------------------------------------------------------
(* re, as the regex notebook uses it.  A str is the sequence of its characters *)

\* the vertical tab, '\x0b'
VT == "\\x0b"
NoMatch == 0 - 1

\* re.compile(pattern): the pattern's items, metacharacters told from literals
compile(pattern) ==
    [j \in 1..Len(pattern) |->
        CASE pattern[j] = "." -> [kind |-> "any"]
          [] pattern[j] = "^" -> [kind |-> "bol"]
          [] pattern[j] = "$" -> [kind |-> "eol"]
          [] OTHER -> [kind |-> "lit", ch |-> pattern[j]]]

\* the dot with re.DOTALL
CharMatches_DotAll(item, ch) ==
    \/ item.kind = "any"
    \/ item.kind = "lit" /\ item.ch = ch

\* whether an item that takes a character takes ch
CharMatches(item, ch) ==
    \/ item.kind = "any" /\ ch # "\n"
    \/ item.kind = "lit" /\ item.ch = ch

\* the caret with re.MULTILINE
AtStart_Multiline(text, pos) == pos = 0 \/ text[pos] = "\n"

\* ^ at position pos (characters before it: pos)
AtStart(text, pos) == pos = 0

\* $ at position pos: the end of the string, or just before a newline that is
\* the string's last character
AtEnd(text, pos) ==
    \/ pos = Len(text)
    \/ pos = Len(text) - 1 /\ text[Len(text)] = "\n"

\* the end of the match of items k.. at position pos, or NoMatch
RECURSIVE MatchAt(_, _, _, _)
MatchAt(items, k, text, pos) ==
    IF k > Len(items) THEN pos
    ELSE CASE items[k].kind = "bol" ->
                 IF AtStart(text, pos) THEN MatchAt(items, k + 1, text, pos)
                 ELSE NoMatch
           [] items[k].kind = "eol" ->
                 IF AtEnd(text, pos) THEN MatchAt(items, k + 1, text, pos)
                 ELSE NoMatch
           [] OTHER ->
                 IF pos < Len(text) /\ CharMatches(items[k], text[pos + 1])
                 THEN MatchAt(items, k + 1, text, pos + 1)
                 ELSE NoMatch

\* regex.finditer(text) from position pos on: the matches from left to right,
\* each search starting where the match before ended
RECURSIVE finditer(_, _, _)
finditer(items, text, pos) ==
    IF pos > Len(text) THEN <<>>
    ELSE LET end == MatchAt(items, 1, text, pos) IN
         IF end = NoMatch THEN finditer(items, text, pos + 1)
         ELSE <<[span |-> <<pos, end>>, match |-> SubSeq(text, pos + 1, end)]>>
              \o finditer(items, text, IF end = pos THEN pos + 1 ELSE end)

----------------------------------------------------------------------------
(* The regex notebook: each cell binds sample_text, compiles a pattern and
   prints the matches; the texts are the notebook's and texts put together
   from pieces *)

SampleDot ==
    <<"\n", "\t", "A", "l", "i", "c", "e", " ", "l", "i", "v", "e", "s", " ",
      "i", "n", ":", "\f", "\n", "1", "2", "3", "0", " ", "F", "i", "r", "s",
      "t", " ", "S", "t", ".", "\r", "\n", "O", "c", "e", "a", "n", " ", "C",
      "i", "t", "y", ",", " ", "M", "D", " ", "1", "5", "6", "7", "8", "9",
      ".", VT, "\n">>
SampleThis ==
    <<"t", "h", "i", "s", " ", "w", "a", "t", "c", "h", " ", "b", "e", "l",
      "o", "n", "g", "s", " ", "i", "n", " ", "t", "h", "i", "s", " ", "b",
      "o", "x", ".">>
SampleWatch ==
    <<"t", "h", "i", "s", " ", "w", "a", "t", "c", "h", " ", "i", "s", " ",
      "b", "e", "t", "t", "e", "r", " ", "t", "h", "a", "n", " ", "t", "h",
      "i", "s", " ", "w", "a", "t", "c", "h">>

PatDot == <<".">>
PatThis == <<"t", "h", "i", "s">>
PatCaretThis == <<"^">> \o PatThis
PatWatch == <<"w", "a", "t", "c", "h">>
PatWatchDollar == PatWatch \o <<"$">>
Patterns == {PatDot, PatThis, PatCaretThis, PatWatch, PatWatchDollar}

Pieces ==
    {PatThis, PatWatch, <<"w", "a", "t">>, <<"c", "h">>, <<" ">>,
     <<"\n">>, <<"\t">>, <<"\f">>, <<"\r">>, <<VT>>}

RECURSIVE Texts(_)
Texts(n) ==
    IF n = 0 THEN {<<>>}
    ELSE Texts(n - 1) \cup {t \o q : t \in Texts(n - 1), q \in Pieces}

RStep(from, to) ==
    /\ nb = "regex"
    /\ pc = from
    /\ pc' = to
    /\ DiskStep(pc)
    /\ UNCHANGED <<nb, exc, trace, slVars, zVars, tVars, aVars>>

\* regex = re.compile(r'...')
RCompile ==
    /\ RStep("re_text", "re_compiled")
    /\ \E pattern \in Patterns : regex' = Some([pattern |-> pattern,
                                               items |-> compile(pattern)])
    /\ UNCHANGED <<sample_text, matches>>

\* matches = regex.finditer(sample_text); for match in matches: print(match)
RFindIter ==
    /\ RStep("re_compiled", "re_done")
    /\ matches' = Some(finditer(The(regex).items, The(sample_text), 0))
    /\ UNCHANGED <<sample_text, regex>>

\* sample_text = '...'
InitRegex ==
    /\ nb = "regex"
    /\ pc = "re_text"
    /\ exc = NoExc
    /\ trace = <<>>
    /\ disk = {}
    /\ SaveLoadIdle
    /\ ZiplineIdle
    /\ TrainingIdle
    /\ AutogradIdle
    /\ \E t \in Texts(MaxPieces) \cup {SampleDot, SampleThis, SampleWatch} :
          sample_text = Some(t)
    /\ regex = None /\ matches = None

NextRegex == RCompile \/ RFindIter

----------------------------------------------------------------------------
Init == InitSaveLoad \/ InitFunctions \/ InitZipline \/ InitTerms \/ InitTraining
           \/ InitRegex \/ InitAutograd \/ InitAccumulate

Next == NextSaveLoad \/ NextFunctions \/ NextZipline \/ NextTerms \/ NextTraining
           \/ NextRegex \/ NextAutograd \/ NextAccumulate

Spec == Init /\ [][Next]_vars

\* The training notebook run from top to bottom: the kernel executes the next
\* statement of a running cell, and the next cell, whenever there is one
TrainSpec == InitTraining /\ [][NextTraining]_vars /\ WF_vars(NextTraining)

----------------------------------------------------------------------------
(* Claims about the checkpoint functions *)

Last(s) == s[Len(s)]
FnEnded(label) == nb = "functions" /\ pc = "fn_end" /\ Last(trace) = label
HasSizeMismatch(x) == \E j \in 1..Len(x.errors) : x.errors[j].kind = "size mismatch"

\* C1: a checkpoint dict holding a network's own input size, output size,
\* hidden sizes and state_dict, saved and given to load_checkpoint, comes back
\* as a network of the same sizes whose every named parameter equals the
\* saved one.
C1_CheckpointRoundTrip ==
    /\ (FnEnded("load_checkpoint") /\ Len(trace) >= 2
            /\ trace[Len(trace) - 1] = "save_checkpoint") =>
          /\ exc = NoExc
          /\ Arch(The(model)) = Arch(The(savedModel))
          /\ StateDict(The(model)) = StateDict(The(savedModel))
    /\ (nb = "saveload" /\ pc = "sl_done") =>
          /\ exc = NoExc
          /\ Arch(The(model)) = Arch(The(savedModel))
          /\ StateDict(The(model)) = StateDict(The(savedModel))

C1_Witness ==
    /\ FnEnded("load_checkpoint")
    /\ trace = <<"train", "save_checkpoint", "load_checkpoint">>
    /\ exc = NoExc
    /\ Arch(The(model)) = <<2, OutputSize, <<3, 2>>>>
    /\ model = savedModel

\* C2: after the save/load notebook has run in document order, the checkpoint
\* in 'checkpoint.pth' is that of the network created with hidden sizes
\* [512, 256, 128] and trained, and load_checkpoint returns that network.
C2_CheckpointIsTrainedModel ==
    (nb = "saveload" /\ pc = "sl_done") =>
        LET ck == Unpickle(The(file)) IN
        /\ Lookup(ck.v, "hidden_layers").val.v = TrainedHidden
        /\ Lookup(ck.v, "state_dict").val.v = StateDict(The(trainedModel))
        /\ model = trainedModel

\* C3 as stated: load_state_dict succeeds on a network of the same sizes and
\* raises a size-mismatch RuntimeError on one built with any different
\* hidden sizes.
C3_AnyDifferenceIsSizeMismatch ==
    (FnEnded("load_same") \/ FnEnded("load_other")) =>
        /\ (Arch(The(model)) = Arch(The(savedModel)) => exc = NoExc)
        /\ (HiddenSizes(The(model)) # HiddenSizes(The(savedModel)) =>
                exc.type = "RuntimeError" /\ HasSizeMismatch(exc))

\* C3: load_state_dict succeeds exactly when the network has the input size,
\* output size and hidden sizes of the one the state dict came from; with
\* different hidden sizes it raises a RuntimeError, which reports a size
\* mismatch whenever the number of hidden layers is the same.
C3_LoadRequiresSameArchitecture ==
    /\ (FnEnded("load_same") \/ FnEnded("load_other")) =>
          /\ (Arch(The(model)) = Arch(The(savedModel)) <=> exc = NoExc)
          /\ (HiddenSizes(The(model)) # HiddenSizes(The(savedModel)) =>
                  exc.type = "RuntimeError" /\ Len(exc.errors) > 0)
          /\ (/\ HiddenSizes(The(model)) # HiddenSizes(The(savedModel))
              /\ Len(HiddenSizes(The(model))) = Len(HiddenSizes(The(savedModel)))
              => HasSizeMismatch(exc))
    /\ (nb = "saveload" /\ pc = "sl_checkpoint") =>
          exc.type = "RuntimeError" /\ HasSizeMismatch(exc)

C3_Witness ==
    /\ FnEnded("load_other")
    /\ HiddenSizes(The(savedModel)) = <<2, 3>>
    /\ HiddenSizes(The(model)) = <<3, 3>>
    /\ InputSizeOf(The(model)) = InputSizeOf(The(savedModel))
    /\ OutputSizeOf(The(model)) = OutputSizeOf(The(savedModel))
    /\ exc.type = "RuntimeError"
    /\ HasSizeMismatch(exc)

C5_CheckpointDictConsistent ==
    /\ checkpoint # None =>
          LET ck == The(checkpoint).v
              hl == Lookup(ck, "hidden_layers").val.v
              sd == Lookup(ck, "state_dict").val.v
          IN /\ Keys(ck) = <<"input_size", "output_size", "hidden_layers", "state_dict">>
             /\ Len(sd) = 2 * Len(hl) + 2
             /\ \A k \in 1..Len(hl) :
                   /\ sd[2 * k - 1].t.shape[1] = hl[k]
                   /\ sd[2 * k].t.shape = <<hl[k]>>
             /\ sd[2 * Len(hl) + 1].t.shape[2] = hl[Len(hl)]
    /\ (pc \in {"sl_save_ck", "fn_saved_ck"}) =>
          LET ck == The(checkpoint).v IN
          /\ Lookup(ck, "hidden_layers").val.v = HiddenSizes(The(model))
          /\ Lookup(ck, "state_dict").val.v = StateDict(The(model))

C5_Witness ==
    /\ nb = "saveload"
    /\ pc = "sl_save_ck"
    /\ checkpoint # None
    /\ Lookup(The(checkpoint).v, "hidden_layers").val.v = OtherHidden
    /\ HiddenSizes(The(model)) = OtherHidden

----------------------------------------------------------------------------
(* Claims about the zipline notebook *)

AddCellColumns == <<"custom factor", "daily return">>

\* C6: pipeline.add under a name that is already a column raises KeyError
\* "Column '<name>' already exists." and leaves the columns as they were;
\* executing the cell of the two adds again fails at its first add, never runs
\* its second add, and run_pipeline later gives the same columns.
C6_DuplicateColumnRaises ==
    nb = "zipline" =>
        /\ exc.type = "KeyError" =>
              /\ exc.msg = "Column 'custom factor' already exists."
              /\ trace = <<"z_add1">>
              /\ pc = "z_add3"
              /\ reruns > 0
        /\ (pc = "z_add3" /\ reruns > 0) => exc.type = "KeyError"
        /\ pc = "z_add3" => Keys(The(pipeline).columns) = AddCellColumns
        /\ pc = "z_done" =>
              The(output).columns = {"custom factor", "daily return", "custom filter"}

C6_Witness ==
    /\ nb = "zipline"
    /\ pc = "z_done"
    /\ reruns = 1
    /\ Keys(The(pipeline).columns) = <<"custom factor", "daily return", "custom filter">>
    /\ The(output).columns = {"custom factor", "daily return", "custom filter"}

\* C10: a (date, asset) row is in the output of run_pipeline exactly when the
\* asset's 60-day average dollar volume on that date is greater than 50000.
C10_ScreenFiltersOutput ==
    (nb = "zipline" /\ pc = "z_done") =>
        /\ The(output).index \subseteq Dates \X Assets
        /\ \A d \in Dates, a \in Assets :
              <<d, a>> \in The(output).index <=>
                  (The(data).adv[<<d, a>>][60] # NaN /\ The(data).adv[<<d, a>>][60] > 50000)

C10_Witness ==
    /\ nb = "zipline"
    /\ pc = "z_done"
    /\ The(data).adv[<<1, 1>>][60] = 50001
    /\ The(data).adv[<<1, 2>>][60] = 50000
    /\ The(output).index = {<<1, 1>>}

----------------------------------------------------------------------------
(* Claims about the training notebook *)

IterOrder == <<"zero_grad", "forward", "loss", "backward", "step">>
IsPrefix(s, t) == Len(s) <= Len(t) /\ \A j \in 1..Len(s) : s[j] = t[j]
InPass == {"d_zero_grad", "d_forward", "d_loss", "d_backward", "d_step"} \cup
          {LoopBody[j] : j \in 1..Len(LoopBody)}

\* C7: in every pass of the training loop and in the single-step demonstration
\* the operations come in the order zero_grad, forward, loss, backward, step;
\* step never runs in a pass without a backward earlier in that pass, and the
\* parameters do not change between the forward pass and the step.
C7_TrainingPassOrder ==
    nb = "training" =>
        /\ IsPrefix(iter_ops, IterOrder)
        /\ pc \in {"t_new", "t_running"} => iter_ops = IterOrder
        /\ (pc \in InPass /\ Len(iter_ops) \in 2..4) => The(tmodel).w = The(toutput).w

C7_Witness ==
    /\ nb = "training"
    /\ pc = "t_running"
    /\ The(e) = Epochs - 1
    /\ remaining = {}
    /\ iter_ops = IterOrder
    /\ The(tmodel).w # The(toutput).w

\* C8: at every optimizer.step() of the training loop (and of the single-step
\* demonstration) each parameter's .grad is the gradient of the current
\* batch's loss alone, with nothing kept from an earlier backward pass.
C8_GradIsCurrentBatchOnly ==
    (nb = "training" /\ pc \in {"t_step", "d_step"}) =>
        \A p \in Params :
            The(tmodel).grad[p] = Some(GradOf(The(tmodel).w, The(tbatch), p))

C8_Witness ==
    /\ nb = "training"
    /\ pc = "t_step"
    /\ The(e) > 0
    /\ remaining = {}
    /\ \A p \in Params :
          The(tmodel).grad[p] = Some(GradOf(The(tmodel).w, The(tbatch), p))

----------------------------------------------------------------------------
(* Claims about exceptions *)

\* what the library call that fails first inside load_checkpoint raises, for
\* the file as the step before the call left it
FirstRaised ==
    CASE pc = "fn_start" ->
            Exc("FileNotFoundError", "No such file or directory: 'checkpoint.pth'")
      [] pc = "fn_saved_sd" -> Exc("KeyError", "input_size")
      [] pc = "fn_saved_ck" ->
            load_state_dict(
                Network(Lookup(The(checkpoint).v, "input_size").val.v,
                        Lookup(The(checkpoint).v, "output_size").val.v,
                        HiddenSizes(The(savedModel)), 0),
                StateDict(The(savedModel))).exc

----------------------------------------------------------------------------
(* Claims about the factors and filters *)

Evaluated(at, name) == nb = "terms" /\ pc = at /\ The(output).name = name
Adv30(a) == The(data).adv[<<StartDate, a>>][30]
Close(a) == The(data).latest[<<StartDate, a>>]
\* assets with a larger, and with a larger or equal, 30-day dollar volume
Larger(a) == {b \in TermAssets : Adv30(b) # NaN /\ Adv30(b) > Adv30(a)}
NotSmaller(a) == {b \in TermAssets : Adv30(b) # NaN /\ Adv30(b) >= Adv30(a)}

\* C11: tradable_asset is True for an asset exactly when the asset is among
\* the 20 assets of largest 30-day average dollar volume on the day and its
\* latest close is above 30; so at most 20 assets are True on a day.  (Among
\* assets of equal volume at the 20th place the claim does not say which are
\* taken: an asset with fewer than 20 larger ones may be True, an asset with
\* at most 20 not smaller ones must be.)
C11_TradableAsset ==
    Evaluated("tm_filter", "tradable_asset") =>
        LET v == The(output).values IN
        /\ \A a \in TermAssets :
              /\ v[a] => /\ Adv30(a) # NaN /\ Cardinality(Larger(a)) < 20
                         /\ Close(a) # NaN /\ Close(a) > 30
              /\ (/\ Adv30(a) # NaN /\ Cardinality(NotSmaller(a)) <= 20
                  /\ Close(a) # NaN /\ Close(a) > 30) => v[a]
        /\ Cardinality({a \in TermAssets : v[a]}) <= 20

C11_Witness ==
    /\ Evaluated("tm_filter", "tradable_asset")
    /\ \E a \in TermAssets : The(output).values[a]
    /\ \E a \in TermAssets :
          /\ Close(a) = 31 /\ Adv30(a) # NaN /\ Cardinality(Larger(a)) = 20
          /\ ~The(output).values[a]
    /\ \E a \in TermAssets :
          /\ Close(a) = 30 /\ Adv30(a) # NaN /\ Cardinality(NotSmaller(a)) <= 20
          /\ ~The(output).values[a]

Sma(a, w) == The(data).sma[<<StartDate, a>>][w]

\* C12: percent_difference is, for every asset, (mean_close_30 -
\* mean_close_60) / mean_close_60 of the closing prices' 30-day and 60-day
\* averages (nan where an average is missing).
C12_PercentDifference ==
    Evaluated("tm_factor", "percent_difference") =>
        \A a \in TermAssets :
            LET r == The(output).values[a] IN
            IF Sma(a, 30) = NaN \/ Sma(a, 60) = NaN
            THEN r = [num |-> 0, den |-> 0]
            ELSE /\ r.den > 0
                 /\ GCD(Abs(r.num), r.den) = 1
                 /\ r.num * Sma(a, 60) = (Sma(a, 30) - Sma(a, 60)) * r.den

C12_Witness ==
    /\ Evaluated("tm_factor", "percent_difference")
    /\ \E a \in TermAssets : The(output).values[a] = [num |-> 0 - 1, den |-> 3]
    /\ \E a \in TermAssets : The(output).values[a] = [num |-> 1, den |-> 2]
    /\ \E a \in TermAssets : The(output).values[a] = [num |-> 0, den |-> 0]

\* C13: the pipeline is created with a screen and no columns, and after the
\* three adds run_pipeline(pipeline, start_date, end_date) gives a table
\* indexed by (date, asset) with exactly the columns 'custom factor',
\* 'daily return' and 'custom filter' and with every date of the index from
\* start_date to end_date.
C13_PipelineOutputShape ==
    nb = "zipline" =>
        /\ pc \in {"z_engine", "z_terms"} =>
              pipeline = Some([screen |-> Universe, columns |-> <<>>])
        /\ pc = "z_done" =>
              /\ Keys(The(pipeline).columns) =
                    <<"custom factor", "daily return", "custom filter">>
              /\ The(output).columns =
                    {"custom factor", "daily return", "custom filter"}
              /\ \A r \in The(output).index :
                    /\ Len(r) = 2
                    /\ StartDate <= r[1] /\ r[1] <= EndDate
                    /\ r[2] \in Assets

C13_Witness ==
    /\ nb = "zipline"
    /\ pc = "z_done"
    /\ reruns = 0
    /\ The(output).index = Dates \X Assets
    /\ \E r \in DOMAIN The(data).adv :
          /\ r[1] < StartDate
          /\ The(data).adv[r][ScreenWindow] > ScreenThreshold

TermsBuilt == {terms[j].term : j \in 1..Len(terms)}

\* C14: in document order a term is built before it is added, every add comes
\* before run_pipeline, the engine is built before run_pipeline, and the
\* bundle is loaded only after it was registered and ZIPLINE_ROOT was set.
C14_ZiplineSequencing ==
    nb = "zipline" =>
        /\ zenv.bundle_data => (zenv.registered /\ zenv.zipline_root)
        /\ pipeline # None =>
              /\ The(pipeline).screen \in TermsBuilt
              /\ \A j \in 1..Len(The(pipeline).columns) :
                    The(pipeline).columns[j].term \in TermsBuilt
        /\ output # None =>
              /\ zenv.engine /\ zenv.bundle_data
              /\ Len(The(pipeline).columns) = 3
              /\ pc = "z_done"
        /\ pc \in {"z_add1", "z_add2", "z_add3"} => output = None

C14_Witness ==
    /\ nb = "zipline"
    /\ pc = "z_done"
    /\ output # None
    /\ zenv = [registered |-> TRUE, zipline_root |-> TRUE,
               bundle_data |-> TRUE, engine |-> TRUE]
    /\ Len(terms) = 8
    /\ Len(The(pipeline).columns) = 3

----------------------------------------------------------------------------
(* Claims about the regular expressions *)

ReDone(pattern) == nb = "regex" /\ pc = "re_done" /\ The(regex).pattern = pattern
Spans(ms) == {ms[j].span : j \in 1..Len(ms)}

\* C15: the dot matches any character except newline: the matches of '.' are
\* one match for each character that is not '\n', from left to right, with
\* span (i, i+1), none for a '\n'; tab, form feed, carriage return and
\* vertical tab are matched.
C15_DotMatchesAllButNewline ==
    ReDone(PatDot) =>
        LET t == The(sample_text)
            m == The(matches)
            others == {i \in 1..Len(t) : t[i] # "\n"}
        IN /\ Len(m) = Cardinality(others)
           /\ \A j \in 1..Len(m) :
                 /\ m[j].span[2] \in others
                 /\ m[j].span[1] = m[j].span[2] - 1
                 /\ m[j].match = <<t[m[j].span[2]]>>
           /\ \A j \in 1..(Len(m) - 1) : m[j].span[1] < m[j + 1].span[1]
           /\ \A i \in 1..Len(t) :
                 t[i] \in {"\t", "\f", "\r", VT} => <<i - 1, i>> \in Spans(m)

C15_Witness ==
    /\ ReDone(PatDot)
    /\ sample_text = Some(SampleDot)
    /\ Len(The(matches)) = 55
    /\ The(matches)[1] = [span |-> <<1, 2>>, match |-> <<"\t">>]
    /\ The(matches)[55] = [span |-> <<57, 58>>, match |-> <<VT>>]
    /\ SampleDot[59] = "\n"

BeginsWith(t, w) == Len(t) >= Len(w) /\ SubSeq(t, 1, Len(w)) = w

\* C16: the matches of '^this' are one match with span (0, 4) if the string
\* begins with 'this' and none otherwise; a later 'this' is never matched, and
\* the matches of '^this' are among the matches of 'this'.
C16_CaretOnlyAtStart ==
    ReDone(PatCaretThis) =>
        LET t == The(sample_text)
            m == The(matches)
        IN /\ m = IF BeginsWith(t, PatThis)
                  THEN <<[span |-> <<0, 4>>, match |-> PatThis]>>
                  ELSE <<>>
           /\ Spans(m) \subseteq Spans(finditer(compile(PatThis), t, 0))

C16_Witness ==
    /\ ReDone(PatCaretThis)
    /\ sample_text = Some(SampleThis)
    /\ Spans(The(matches)) = {<<0, 4>>}
    /\ Spans(finditer(compile(PatThis), SampleThis, 0)) = {<<0, 4>>, <<22, 26>>}

\* C17: the matches of 'watch$' are at most one, and only an occurrence of
\* 'watch' whose last character is the last character of the string is
\* matched, never one that further characters follow.
C17_DollarOnlyAtEnd ==
    ReDone(PatWatchDollar) =>
        LET t == The(sample_text)
            m == The(matches)
        IN /\ Len(m) <= 1
           /\ \A j \in 1..Len(m) :
                 /\ m[j].match = PatWatch
                 /\ m[j].span[2] = Len(t)

----------------------------------------------------------------------------
(* Claims about autograd *)

\* C18: for a 2 x 2 tensor x with requires_grad, y = x**2 and z = y.mean(),
\* one z.backward() sets x.grad to x/2 element by element.
C18_GradIsHalfX ==
    (nb = "autograd" /\ pc = "a_done") =>
        /\ The(tx).grad # None
        /\ \A i \in Idx :
              LET g == The(The(tx).grad)[i]
                  v == The(tx).data[i]
              IN g.den > 0 /\ 2 * g.num * v.den = v.num * g.den

C18_Witness ==
    /\ nb = "autograd"
    /\ pc = "a_done"
    /\ The(tx).data[<<1, 1>>] = [num |-> 1, den |-> 1]
    /\ The(The(tx).grad)[<<1, 1>>] = [num |-> 1, den |-> 2]
    /\ The(tx).data[<<2, 2>>] = [num |-> 0 - 2, den |-> 1]
    /\ The(The(tx).grad)[<<2, 2>>] = [num |-> 0 - 1, den |-> 1]
    /\ The(tz).data = [num |-> 5, den |-> 4]

----------------------------------------------------------------------------
(* Claims about the notebooks' effects on each other *)

\* the notebooks whose cells call torch.save and torch.load
SaveLoadBooks == {"saveload", "functions"}

\* the paths the cells of notebook b write to
OwnPaths(b) ==
    CASE b \in SaveLoadBooks -> {CheckpointPath, FashionPath}
      [] b \in {"training", "autograd", "accumulate"} -> {MnistPath}
      [] b \in {"zipline", "terms"} -> {PackagesPath}
      [] OTHER -> {}

\* a cell of one notebook leaves the kernel on that notebook and the state of
\* every other notebook as it was; the checkpoint file changes only in the
\* save/load notebook
OthersUnchanged ==
    /\ nb' = nb
    /\ (file' # file => nb \in SaveLoadBooks)
    /\ (nb \notin SaveLoadBooks => UNCHANGED slVars)
    /\ (nb \notin {"zipline", "terms"} => UNCHANGED zVars)
    /\ (nb \notin {"training", "autograd", "accumulate"} => UNCHANGED <<tVars, aVars>>)
    /\ (nb # "regex" => UNCHANGED rVars)

----------------------------------------------------------------------------
(* Claims about gradients *)

\* the statements of the training cell's first pass that come before the
\* backward pass
BeforeFirstBackward ==
    /\ e = Some(0)
    /\ Cardinality(remaining) = NBatches - 1
    /\ pc \in {"t_view", "t_zero_grad", "t_forward", "t_loss", "t_backward"}

\* C21: a gradient is None until a backward pass is run on a value computed
\* from its tensor and is a tensor afterwards: x.grad around z.backward(), and
\* the .grad of a freshly built model's parameters around loss.backward().
C21_GradNoneUntilBackward ==
    /\ (nb = "autograd" /\ pc \in {"a_y", "a_z", "a_grad", "a_backward"}) =>
            The(tx).grad = None
    /\ (nb = "autograd" /\ pc = "a_done") => The(tx).grad # None
    /\ (nb = "training" /\ pc = "t_first_backward") =>
            \A p \in Params : The(tmodel).grad[p] = None
    /\ (nb = "training" /\ pc = "t_optimizer") =>
            \A p \in Params : The(tmodel).grad[p] # None
    /\ (nb = "training" /\ ((pc = "t_epoch" /\ e = None) \/ BeforeFirstBackward)) =>
            \A p \in Params : The(tmodel).grad[p] = None
    /\ (nb = "training" /\ pc \in {"t_step", "t_running"}) =>
            \A p \in Params : The(tmodel).grad[p] # None

C21_Witness ==
    /\ nb = "training"
    /\ pc = "t_optimizer"
    /\ The(tmodel).grad["weight"] = Some(GradOf(The(tmodel).w, The(tbatch), "weight"))
    /\ The(tmodel).grad["bias"] = Some(2)

\* the gradient of the loss computed from graph l with respect to parameter p
PassGrad(l, p) == GradOf(l.w, l.batch, p)

----------------------------------------------------------------------------
(* Claims about the training cell's output and its end *)

InBody == pc \in {LoopBody[j] : j \in 1..Len(LoopBody)}

\* the batches of the current epoch whose loss has been added to running_loss
Added == NBatches - Cardinality(remaining) - (IF InBody THEN 1 ELSE 0)

\* the lines printed and running_loss, at each point of the loop
LossLines ==
    nb = "training" =>
        /\ (pc = "t_for" \/ InBody) =>
              /\ stdout.lines = The(e)
              /\ The(running_loss) \in 0..Added
        /\ (pc = "t_epoch" /\ e # None) =>
              /\ stdout.lines = The(e) + 1
              /\ remaining = {}
              /\ stdout.last = Some(<<The(running_loss), NBatches>>)
        /\ pc = "t_done" => stdout.lines = Epochs
        /\ (pc = "t_epoch" /\ e = None) => stdout.lines = 0

\* what a step of the loop does to running_loss and to the output
LossSteps ==
    nb = "training" =>
        /\ running_loss' # running_loss =>
              \/ pc = "t_epoch" /\ running_loss' = Some(0)
              \/ /\ pc = "t_running"
                 /\ running_loss' = Some(The(running_loss) + LossItem(The(loss)))
                 /\ The(loss).batch = The(tbatch)
        /\ (pc = "t_epoch" /\ pc' = "t_for") => running_loss' = Some(0)
        /\ stdout' # stdout =>
              /\ pc = "t_for" /\ remaining = {} /\ pc' = "t_epoch"
              /\ stdout'.lines = stdout.lines + 1
              /\ stdout'.last = Some(<<The(running_loss), NBatches>>)
        /\ (pc = "t_for" /\ remaining = {}) => stdout' # stdout

\* C23: the training loop prints one 'Training loss' line per epoch, after all
\* batches of the epoch; running_loss is 0 at the start of each epoch, grows by
\* each batch's loss.item(), and the line shows it over len(trainloader).
C23_OneLossLinePerEpoch == []LossLines /\ [][LossSteps]_vars

C23_Witness ==
    /\ nb = "training"
    /\ pc = "t_epoch"
    /\ e = Some(1)
    /\ stdout.lines = 2
    /\ stdout.last = Some(<<1, NBatches>>)

\* the batches the training loop has taken from the loader so far
Iterations ==
    IF e = None THEN 0
    ELSE The(e) * NBatches + (NBatches - Cardinality(remaining))

\* the calls of optimizer.step() in the current pass
StepsInPass == Cardinality({j \in 1..Len(iter_ops) : iter_ops[j] = "step"})

LoopCounts ==
    /\ Iterations <= Epochs * NBatches
    /\ pc = "t_done" =>
          /\ e = Some(Epochs - 1)
          /\ remaining = {}
          /\ Iterations = Epochs * NBatches
    /\ InBody => StepsInPass <= 1
    /\ pc = "t_running" => StepsInPass = 1
    /\ (InBody /\ pc # "t_running") =>
          (StepsInPass = 1 <=> \E j \in 1..Len(LoopBody) :
                                  LoopBody[j] = "t_step" /\ After("t_step") = pc)

LoopSteps ==
    /\ (pc = "t_for" /\ remaining # {}) =>
          /\ tbatch' # None
          /\ The(tbatch') \in remaining
          /\ remaining' = remaining \ {The(tbatch')}
          /\ Iterations' = Iterations + 1
    /\ Iterations' # Iterations => (pc = "t_for" /\ remaining # {})
    /\ e' # e => (pc = "t_epoch" /\ remaining = {} /\ remaining' = Batches)

\* C24: the training loop ends; by then it has taken epochs * len(trainloader)
\* batches, each batch of the loader once in each epoch, with one
\* optimizer.step() in the pass of each batch.
C24_TrainingLoopTerminates ==
    /\ []LoopCounts
    /\ [][LoopSteps]_vars
    /\ <>(pc = "t_done")

C24_Witness ==
    /\ nb = "training"
    /\ pc = "t_done"
    /\ e = Some(Epochs - 1)
    /\ remaining = {}
    /\ stdout.lines = Epochs
    /\ MnistPath \notin disk

====
